---- MODULE Spec2Model ----
(***************************************************************************)
(* Model of dbx-backups (src/src/main.rs): the pruning run of main, the    *)
(* two backup readers, Date::from_str, policy_for, apply_policy and        *)
(* keep_days.                                                              *)
(*                                                                         *)
(* Strings are sequences of bytes, each byte written as a one-character    *)
(* string, except the two bytes of a two-byte UTF-8 character, written     *)
(* "C3" (lead byte) and "A9" (continuation byte).                          *)
(* An Option is <<>> for None and <<x>> for Some(x).                       *)
(***************************************************************************)
EXTENDS Integers, Sequences, FiniteSets, TLC

VARIABLES
    pc,             \* position of main / of the pure-function harness
    read_from,      \* args.read_from
    dry_run,        \* args.dry_run : Option<bool>
    listing,        \* what the backend holds: entries (Dropbox) or lines (file)
    cur,            \* today's date, from the wall clock
    backups,        \* Vec<Backup>
    years,          \* Vec<Year>
    i,              \* enumerate() position of the index-building loop
    policies,       \* log of the policy computed for each (year, month) bucket
    days_to_remove, \* Vec<Day>
    removals,       \* Vec<Removal>
    reported,       \* names printed by the dry-run branch
    delete_calls,   \* names handed to BackupDeleter::delete, in call order
    deleted,        \* names whose delete call returned Ok
    call,           \* pure-function harness: the arguments
    ret             \* pure-function harness: the result

vars == <<pc, read_from, dry_run, listing, cur, backups, years, i, policies,
          days_to_remove, removals, reported, delete_calls, deleted, call, ret>>

runVars == <<read_from, dry_run, listing, cur, backups, years, i, policies,
             days_to_remove, removals, reported, delete_calls, deleted>>

(***************************************************************************)
(* Bounds                                                                  *)
(***************************************************************************)
MaxNameLen == 11        \* longest identifier fed to Date::from_str alone
MaxBackups == 3         \* longest free-form listing of a run
MaxPopulated == 2       \* most populated day slots of a month fed to apply_policy
YearSpan == 1           \* bucket years range over BaseYear +- YearSpan + 1

(***************************************************************************)
(* Program constants                                                       *)
(***************************************************************************)
MinNameLen == 11
MonthsPerYear == 12
DaysPerMonth == 31

None == <<>>
Some(x) == <<x>>

(***************************************************************************)
(* Strings                                                                 *)
(***************************************************************************)
DigitChars == <<"0", "1", "2", "3", "4", "5", "6", "7", "8", "9">>

IsDigit(c) == \E d \in 1..10 : DigitChars[d] = c

DigitVal(c) == (CHOOSE d \in 1..10 : DigitChars[d] = c) - 1

RECURSIVE DecimalValue(_)
DecimalValue(ds) ==
    IF Len(ds) = 0 THEN 0
    ELSE 10 * DecimalValue(SubSeq(ds, 1, Len(ds) - 1)) + DigitVal(ds[Len(ds)])

\* str::is_char_boundary: idx is a 0-based byte offset
is_char_boundary(s, idx) ==
    \/ idx = 0
    \/ idx = Len(s)
    \/ idx < Len(s) /\ s[idx + 1] # "A9"

\* &s[from..to] : the bytes at 0-based offsets from..to-1
Slice(s, from, to) == SubSeq(s, from + 1, to)

SliceFaults(s, from, to) ==
    \/ to > Len(s)
    \/ ~is_char_boundary(s, from)
    \/ ~is_char_boundary(s, to)

ParseErr == [kind |-> "Err"]
ParseOk(v) == [kind |-> "Ok", val |-> v]

\* <u32 as FromStr>::from_str on at most four bytes (no overflow possible):
\* an empty string, a lone sign and any non-digit are errors; one leading
\* "+" is accepted and dropped; "-" is not a sign for an unsigned type.
parse_u32(src) ==
    IF Len(src) = 0 THEN ParseErr
    ELSE IF Len(src) = 1 /\ src[1] \in {"+", "-"} THEN ParseErr
    ELSE LET digits == IF src[1] = "+" THEN Tail(src) ELSE src
         IN  IF \A k \in 1..Len(digits) : IsDigit(digits[k])
             THEN ParseOk(DecimalValue(digits))
             ELSE ParseErr

NotBackup == [kind |-> "NotBackup"]
Panic == [kind |-> "Panic"]
Date(y, m, d) == [year |-> y, month |-> m, day |-> d]
OkDate(y, m, d) == [kind |-> "Ok", date |-> Date(y, m, d)]

\* impl FromStr for Date
from_str(s) ==
    IF Len(s) < MinNameLen THEN NotBackup
    ELSE IF SliceFaults(s, 0, 4) THEN Panic
    ELSE LET year == parse_u32(Slice(s, 0, 4)) IN
    IF year.kind = "Err" THEN NotBackup
    ELSE IF SliceFaults(s, 4, 6) THEN Panic
    ELSE LET month == parse_u32(Slice(s, 4, 6)) IN
    IF month.kind = "Err" THEN NotBackup
    ELSE IF SliceFaults(s, 6, 8) THEN Panic
    ELSE LET day == parse_u32(Slice(s, 6, 8)) IN
    IF day.kind = "Err" THEN NotBackup
    ELSE OkDate(year.val, month.val, day.val)

Backup(name, date) == [name |-> name, date |-> date]

\* the value of a call that returned, as opposed to Panic
Ok(v) == [kind |-> "Ok", val |-> v]

IsSpace(c) == c \in {" ", "\t"}

RECURSIVE trim_start(_)
trim_start(s) ==
    IF Len(s) > 0 /\ IsSpace(s[1]) THEN trim_start(Tail(s)) ELSE s

RECURSIVE trim_end(_)
trim_end(s) ==
    IF Len(s) > 0 /\ IsSpace(s[Len(s)])
    THEN trim_end(SubSeq(s, 1, Len(s) - 1)) ELSE s

trim(s) == trim_end(trim_start(s))

\* One iteration of the loop of DropboxBackupReader::read (lines 66-77).
\* The result is Ok(the Vec after the iteration) or Panic.
DropboxReadEntry(bs, entry) ==
    IF entry.kind # "file" THEN Ok(bs)
    ELSE LET r == from_str(entry.name) IN
         IF r.kind = "Panic" THEN Panic
         ELSE IF r.kind = "Ok" THEN Ok(Append(bs, Backup(entry.name, r.date)))
         ELSE Ok(bs)

\* One iteration of the loop of FileBackupReader::read (lines 91-105).
FileReadLine(bs, raw) ==
    LET line == trim(raw) IN
    IF Len(line) = 0 THEN Ok(bs)
    ELSE LET r == from_str(line) IN
         IF r.kind = "Panic" THEN Panic
         ELSE IF r.kind = "Ok" THEN Ok(Append(bs, Backup(line, r.date)))
         ELSE Ok(bs)

RECURSIVE ReadAll(_, _, _)
ReadAll(src, bs, entries) ==
    IF Len(entries) = 0 THEN Ok(bs)
    ELSE LET nxt == IF src = "Dropbox"
                    THEN DropboxReadEntry(bs, Head(entries))
                    ELSE FileReadLine(bs, Head(entries).name)
         IN  IF nxt.kind = "Panic" THEN Panic
             ELSE ReadAll(src, nxt.val, Tail(entries))

(***************************************************************************)
(* Harness for Date::from_str: identifiers are built byte by byte, then    *)
(* parsed and offered to a reader.  Date::from_str never reads past byte   *)
(* 8, so the bytes after it are drawn from a one-element set.              *)
(***************************************************************************)
HeadLen == 8
HeadChars == {<<"1">>, <<"+">>, <<"a">>, <<"C3", "A9">>}
TailChars == {<<".">>}

InitParse ==
    /\ pc = "build"
    /\ call = [fn |-> "from_str", s |-> <<>>]
    /\ ret = None
    /\ read_from = "Dropbox" /\ dry_run = None /\ listing = <<>>
    /\ cur = Date(0, 0, 0) /\ backups = <<>> /\ years = <<>> /\ i = 0
    /\ policies = <<>> /\ days_to_remove = <<>> /\ removals = <<>>
    /\ reported = <<>> /\ delete_calls = <<>> /\ deleted = <<>>

PushChar ==
    /\ pc = "build"
    /\ \E c \in (IF Len(call.s) < HeadLen THEN HeadChars ELSE TailChars) :
          /\ Len(call.s) + Len(c) <= MaxNameLen
          /\ call' = [call EXCEPT !.s = call.s \o c]
    /\ UNCHANGED <<pc, ret>>
    /\ UNCHANGED runVars

ParseName ==
    /\ pc = "build"
    /\ pc' = "returned"
    /\ ret' = Some([parsed |-> from_str(call.s),
                    kept |-> DropboxReadEntry(<<>>, [kind |-> "file", name |-> call.s])])
    /\ UNCHANGED call
    /\ UNCHANGED runVars

NextParse == PushChar \/ ParseName

SpecParse == InitParse /\ [][NextParse]_vars

AllDigits(s) == \A k \in 1..Len(s) : IsDigit(s[k])

\* C8: an identifier shorter than 11 characters, or whose first 8 characters
\* are not all decimal digits, parses to NotBackup (never a Date, never a
\* fault) and the reader leaves it out of the backup list.
C8_ShortOrNonDigitIsNotBackup ==
    (pc = "returned" /\ call.fn = "from_str"
        /\ (Len(call.s) < MinNameLen \/ ~AllDigits(SubSeq(call.s, 1, HeadLen))))
    => (ret[1].parsed.kind = "NotBackup" /\ ret[1].kept.kind = "Ok"
           /\ ret[1].kept.val = <<>>)

(***************************************************************************)
(* Policy selection                                                        *)
(***************************************************************************)
MonthPolicy == {"Daily", "Weekly", "BiMonthly", "First"}

\* policy_for with the Weekly threshold off by one (<= 4 for < 4)
policy_for_weekly_le(today, year, month) ==
    IF today.year < year THEN "Daily"
    ELSE LET cur_month == IF year < today.year
                          THEN today.month + (12 * (today.year - year))
                          ELSE today.month
         IN  IF cur_month <= month THEN "Daily"
             ELSE IF cur_month - month < 2 THEN "Daily"
             ELSE IF cur_month - month <= 4 THEN "Weekly"
             ELSE IF cur_month - month < 9 THEN "BiMonthly"
             ELSE "First"

\* policy_for with the BiMonthly threshold at 11 months instead of 9
policy_for_bimonthly_11(today, year, month) ==
    IF today.year < year THEN "Daily"
    ELSE LET cur_month == IF year < today.year
                          THEN today.month + (12 * (today.year - year))
                          ELSE today.month
         IN  IF cur_month <= month THEN "Daily"
             ELSE IF cur_month - month < 2 THEN "Daily"
             ELSE IF cur_month - month < 4 THEN "Weekly"
             ELSE IF cur_month - month < 11 THEN "BiMonthly"
             ELSE "First"

\* fn policy_for(cur: Date, year: u32, month: u32) -> MonthPolicy.
\* The u32 subtractions are reached only with a positive result, and years
\* of at most four digits keep the sum far below 2^32.
policy_for(today, year, month) ==
    IF today.year < year THEN "Daily"
    ELSE LET cur_month == IF year < today.year
                          THEN today.month + (12 * (today.year - year))
                          ELSE today.month
         IN  IF cur_month <= month THEN "Daily"
             ELSE IF cur_month - month < 2 THEN "Daily"
             ELSE IF cur_month - month < 4 THEN "Weekly"
             ELSE IF cur_month - month < 9 THEN "BiMonthly"
             ELSE IF cur_month - month < 12 THEN "First"
             ELSE "First"

TodayYears == (2023 - YearSpan)..(2023 + YearSpan)
BucketYears == (2022 - YearSpan)..(2024 + YearSpan)
TodayDays == {1, 15}

InitPolicy ==
    /\ pc = "call"
    /\ \E ty \in TodayYears, tm \in 1..MonthsPerYear, td \in TodayDays,
          y \in BucketYears, m \in 1..MonthsPerYear :
          call = [fn |-> "policy_for", cur |-> Date(ty, tm, td),
                  year |-> y, month |-> m]
    /\ ret = None
    /\ read_from = "Dropbox" /\ dry_run = None /\ listing = <<>>
    /\ cur = Date(0, 0, 0) /\ backups = <<>> /\ years = <<>> /\ i = 0
    /\ policies = <<>> /\ days_to_remove = <<>> /\ removals = <<>>
    /\ reported = <<>> /\ delete_calls = <<>> /\ deleted = <<>>

CallPolicyFor ==
    /\ pc = "call"
    /\ call.fn = "policy_for"
    /\ pc' = "returned"
    /\ ret' = Some(policy_for(call.cur, call.year, call.month))
    /\ UNCHANGED call
    /\ UNCHANGED runVars

NextPolicy == CallPolicyFor

SpecPolicy == InitPolicy /\ [][NextPolicy]_vars

Age(today, y, m) == (today.year - y) * 12 + today.month - m

IsFuture(today, y, m) == y > today.year \/ (y = today.year /\ m > today.month)

PolicyByAge(today, y, m) ==
    IF IsFuture(today, y, m) THEN "Daily"
    ELSE IF Age(today, y, m) < 2 THEN "Daily"
    ELSE IF Age(today, y, m) < 4 THEN "Weekly"
    ELSE IF Age(today, y, m) < 9 THEN "BiMonthly"
    ELSE "First"

Strictness(p) ==
    CASE p = "Daily" -> 0 [] p = "Weekly" -> 1 [] p = "BiMonthly" -> 2 [] p = "First" -> 3

\* C1: policy_for returns Daily for a future bucket, and otherwise Daily for
\* age < 2, Weekly for 2 <= age < 4, BiMonthly for 4 <= age < 9 and
\* MonthlyFirst for age >= 9, with age = (today.year - y)*12 + today.month - m;
\* no older bucket gets a less strict policy than the one returned.
C1_PolicyThresholds ==
    (pc = "returned" /\ call.fn = "policy_for") =>
        /\ ret[1] = PolicyByAge(call.cur, call.year, call.month)
        /\ \A y2 \in BucketYears, m2 \in 1..MonthsPerYear :
              (~IsFuture(call.cur, call.year, call.month)
                 /\ Age(call.cur, y2, m2) >= Age(call.cur, call.year, call.month))
              => Strictness(policy_for(call.cur, y2, m2)) >= Strictness(ret[1])

\* C1 witness: policy_for returned First for a bucket of an earlier year whose
\* age is exactly 9, the last threshold.
C1_Witness ==
    /\ pc = "returned" /\ call.fn = "policy_for"
    /\ call.year < call.cur.year
    /\ Age(call.cur, call.year, call.month) = 9
    /\ ret[1] = "First"

(***************************************************************************)
(* Pruning                                                                 *)
(***************************************************************************)
Days == 1..DaysPerMonth
EmptyMonth == [d \in Days |-> None]

RECURSIVE KeepLoop(_, _, _, _, _)
\* the for loop of keep_days, at day number num with the keep cursor at kpos
KeepLoop(month, keep, num, kpos, result) ==
    IF num > DaysPerMonth THEN result
    ELSE IF kpos > Len(keep) THEN result
    ELSE IF keep[kpos] = num
         THEN KeepLoop(month, keep, num + 1, kpos + 1, result)
    ELSE IF month[num] # None
         THEN KeepLoop(month, keep, num + 1, kpos, Append(result, month[num][1]))
    ELSE KeepLoop(month, keep, num + 1, kpos, result)

RECURSIVE KeepLoopNoBreak(_, _, _, _, _)
KeepLoopNoBreak(month, keep, num, kpos, result) ==
    IF num > DaysPerMonth THEN result
    ELSE IF kpos <= Len(keep) /\ keep[kpos] = num
         THEN KeepLoopNoBreak(month, keep, num + 1, kpos + 1, result)
    ELSE IF month[num] # None
         THEN KeepLoopNoBreak(month, keep, num + 1, kpos, Append(result, month[num][1]))
    ELSE KeepLoopNoBreak(month, keep, num + 1, kpos, result)

RECURSIVE KeepLoopNoAdvance(_, _, _, _, _)
KeepLoopNoAdvance(month, keep, num, kpos, result) ==
    IF num > DaysPerMonth THEN result
    ELSE IF kpos > Len(keep) THEN result
    ELSE IF keep[kpos] = num
         THEN KeepLoopNoAdvance(month, keep, num + 1, kpos + 1,
                                IF month[num] # None
                                THEN Append(result, month[num][1]) ELSE result)
    ELSE IF month[num] # None
         THEN KeepLoopNoAdvance(month, keep, num + 1, kpos, Append(result, month[num][1]))
    ELSE KeepLoopNoAdvance(month, keep, num + 1, kpos, result)

\* keep_days that goes on to the end of the month once the keep list is used up
keep_days_no_break(month, day_nums_to_keep) ==
    KeepLoopNoBreak(month, day_nums_to_keep, 1, 1, <<>>)

\* keep_days that advances the keep cursor but forgets the continue
keep_days_no_continue(month, day_nums_to_keep) ==
    KeepLoopNoAdvance(month, day_nums_to_keep, 1, 1, <<>>)

\* fn keep_days(month: &Month, day_nums_to_keep: &[u32]) -> Vec<Day>
keep_days(month, day_nums_to_keep) ==
    KeepLoop(month, day_nums_to_keep, 1, 1, <<>>)

WeeklyKeep == <<1, 8, 15, 22, 29>>
BiMonthlyKeep == <<1, 15>>
FirstKeep == <<1>>

KeepOf(policy) ==
    CASE policy = "Daily" -> <<>>
      [] policy = "Weekly" -> WeeklyKeep
      [] policy = "BiMonthly" -> BiMonthlyKeep
      [] policy = "First" -> FirstKeep

\* apply_policy whose First arm prunes like BiMonthly
apply_policy_first_as_bimonthly(policy, month) ==
    CASE policy = "Daily" -> <<>>
      [] policy = "Weekly" -> keep_days(month, WeeklyKeep)
      [] policy = "BiMonthly" -> keep_days(month, BiMonthlyKeep)
      [] policy = "First" -> keep_days(month, BiMonthlyKeep)

\* fn apply_policy(policy: MonthPolicy, month: &Month) -> Vec<Day>
apply_policy(policy, month) ==
    CASE policy = "Daily" -> <<>>
      [] policy = "Weekly" -> keep_days(month, WeeklyKeep)
      [] policy = "BiMonthly" -> keep_days(month, BiMonthlyKeep)
      [] policy = "First" -> keep_days(month, FirstKeep)

RECURSIVE DaySetsUpTo(_)
DaySetsUpTo(n) ==
    IF n = 0 THEN {{}}
    ELSE LET P == DaySetsUpTo(n - 1) IN P \cup {S \cup {d} : S \in P, d \in Days}

\* the Day stored in slot d of a harness month: an index that is not d itself
HarnessIdx(d) == (d * 7) % DaysPerMonth

MonthOf(S) == [d \in Days |-> IF d \in S THEN Some(HarnessIdx(d)) ELSE None]

InitPrune ==
    /\ pc = "call"
    /\ \E S \in DaySetsUpTo(MaxPopulated), p \in MonthPolicy :
          call = [fn |-> "apply_policy", policy |-> p, month |-> MonthOf(S)]
    /\ ret = None
    /\ read_from = "Dropbox" /\ dry_run = None /\ listing = <<>>
    /\ cur = Date(0, 0, 0) /\ backups = <<>> /\ years = <<>> /\ i = 0
    /\ policies = <<>> /\ days_to_remove = <<>> /\ removals = <<>>
    /\ reported = <<>> /\ delete_calls = <<>> /\ deleted = <<>>

CallApplyPolicy ==
    /\ pc = "call"
    /\ call.fn = "apply_policy"
    /\ pc' = "returned"
    /\ ret' = Some(apply_policy(call.policy, call.month))
    /\ UNCHANGED call
    /\ UNCHANGED runVars

NextPrune == CallApplyPolicy

SpecPrune == InitPrune /\ [][NextPrune]_vars

Range(f) == {f[k] : k \in DOMAIN f}

\* the days of the month whose slot holds one of the returned Days
ReturnedDays(month, result) ==
    {d \in Days : month[d] # None /\ month[d][1] \in Range(result)}

Populated(month) == {d \in Days : month[d] # None}

Last(seq) == seq[Len(seq)]

\* C2: apply_policy/keep_days never returns a day in the policy's keep set,
\* and never a day after the largest keep day of the policy.
C2_KeptAndLateDaysNotReturned ==
    (pc = "returned" /\ call.fn = "apply_policy" /\ call.policy # "Daily") =>
        \A d \in ReturnedDays(call.month, ret[1]) :
            /\ d \notin Range(KeepOf(call.policy))
            /\ d <= Last(KeepOf(call.policy))

\* C2 witness: a Weekly month with a populated day 30 and a populated
\* non-anchor day before 29, of which only the latter is returned.
C2_Witness ==
    /\ pc = "returned" /\ call.fn = "apply_policy" /\ call.policy = "Weekly"
    /\ 30 \in Populated(call.month)
    /\ ReturnedDays(call.month, ret[1]) # {}

(***************************************************************************)
(* The run of main                                                         *)
(***************************************************************************)
D2(n) == <<DigitChars[(n \div 10) + 1], DigitChars[(n % 10) + 1]>>
D4(n) == D2(n \div 100) \o D2(n % 100)

TarGz == <<".", "t", "a", "r", ".", "g", "z">>
Tgz == <<".", "t", "g", "z">>

\* the identifier yyyymmdd<ext>
MkName(y, m, d, ext) == D4(y) \o D2(m) \o D2(d) \o ext

File(name) == [kind |-> "file", name |-> name]
Folder(name) == [kind |-> "folder", name |-> name]

Readme == <<"R", "E", "A", "D", "M", "E", ".", "m", "d">>

\* what a listing may hold: backups on and off anchor days, two names with
\* one date, a name that comes twice once a line is trimmed, a file that is
\* no backup, and a name whose month and day are out of range
Entries ==
    { File(MkName(2023, 1, 2, TarGz)),
      File(MkName(2023, 1, 2, Tgz)),
      File(MkName(2023, 1, 15, TarGz)),
      File(MkName(2023, 1, 20, TarGz)),
      File(MkName(2022, 11, 3, TarGz)),
      File(Readme),
      Folder(<<" ">> \o MkName(2023, 1, 2, TarGz) \o <<" ">>),
      File(MkName(2023, 13, 99, TarGz)) }

RECURSIVE ListsUpTo(_)
ListsUpTo(n) ==
    IF n = 0 THEN {<<>>}
    ELSE LET P == ListsUpTo(n - 1) IN P \cup {Append(l, e) : l \in P, e \in Entries}

Sep15 == Date(2023, 9, 15)
Todays == {Sep15, Date(2023, 4, 1)}

\* 20230101.tar.gz ... 20230131.tar.gz
JanuaryListing == [d \in Days |-> File(MkName(2023, 1, d, TarGz))]

\* one backup (of day 2) in each month 2022-01 .. 2023-09
TwoYearListing ==
    [k \in 1..21 |-> File(MkName(2022 + ((k - 1) \div 12), ((k - 1) % 12) + 1, 2, TarGz))]

Init ==
    /\ pc = "start"
    /\ read_from \in {"Dropbox", "Filesystem"}
    /\ dry_run \in {None, Some(TRUE), Some(FALSE)}
    /\ \/ listing \in ListsUpTo(MaxBackups) /\ cur \in Todays
       \/ listing = JanuaryListing /\ cur = Sep15
       \/ listing = TwoYearListing /\ cur = Sep15
    /\ backups = <<>> /\ years = <<>> /\ i = 0
    /\ policies = <<>> /\ days_to_remove = <<>> /\ removals = <<>>
    /\ reported = <<>> /\ delete_calls = <<>> /\ deleted = <<>>
    /\ call = None /\ ret = None

\* lines 174-202: pick the reader and the deleter, or bail on a missing path
Configure ==
    /\ pc = "start"
    /\ \E path_empty \in BOOLEAN : pc' = IF path_empty THEN "bail" ELSE "read"
    /\ UNCHANGED <<call, ret>>
    /\ UNCHANGED runVars

\* line 203: backup_reader.read().context("read backups")?
\* The backend may fail (open or read error, Dropbox error, has_more).
Read ==
    /\ pc = "read"
    /\ \E backend_ok \in BOOLEAN :
          IF ~backend_ok
          THEN pc' = "read_error" /\ UNCHANGED backups
          ELSE LET bs == ReadAll(read_from, <<>>, listing) IN
               IF bs.kind = "Panic"
               THEN pc' = "panic" /\ UNCHANGED backups
               ELSE pc' = "index" /\ backups' = bs.val
    /\ UNCHANGED <<read_from, dry_run, listing, cur, years, i, policies,
                   days_to_remove, removals, reported, delete_calls, deleted,
                   call, ret>>

NewYear(num) == [num |-> num, months |-> [m \in 1..MonthsPerYear |-> EmptyMonth]]

\* years.iter_mut().find(|o| o.num == num): position of the first match, 0 if none
FindYear(ys, num) ==
    IF \E k \in 1..Len(ys) : ys[k].num = num
    THEN CHOOSE k \in 1..Len(ys) :
            ys[k].num = num /\ \A j \in 1..(k - 1) : ys[j].num # num
    ELSE 0

\* the loop body with the position of the year stored in place of i
IndexBackup_year_idx(ys, idx, backup) ==
    LET found == FindYear(ys, backup.date.year)
        ys1 == IF found = 0 THEN Append(ys, NewYear(backup.date.year)) ELSE ys
        pos == IF found = 0 THEN Len(ys1) ELSE found
    IN  IF backup.date.month \notin 1..MonthsPerYear \/ backup.date.day \notin Days
        THEN Panic
        ELSE Ok([ys1 EXCEPT ![pos].months[backup.date.month][backup.date.day] =
                                 Some(Len(ys1) - 1)])

\* the loop body that leaves an occupied slot alone
IndexBackup_first_wins(ys, idx, backup) ==
    LET found == FindYear(ys, backup.date.year)
        ys1 == IF found = 0 THEN Append(ys, NewYear(backup.date.year)) ELSE ys
        pos == IF found = 0 THEN Len(ys1) ELSE found
    IN  IF backup.date.month \notin 1..MonthsPerYear \/ backup.date.day \notin Days
        THEN Panic
        ELSE IF ys1[pos].months[backup.date.month][backup.date.day] # None
        THEN Ok(ys1)
        ELSE Ok([ys1 EXCEPT ![pos].months[backup.date.month][backup.date.day] =
                                 Some(idx)])

\* lines 206-216, the body of the index-building loop for backup number idx
\* (0-based).  month - 1 and day - 1 index fixed arrays of 12 and 31: a
\* month or day of 0 (u32 underflow) or beyond the array length faults.
IndexBackup(ys, idx, backup) ==
    LET found == FindYear(ys, backup.date.year)
        ys1 == IF found = 0 THEN Append(ys, NewYear(backup.date.year)) ELSE ys
        pos == IF found = 0 THEN Len(ys1) ELSE found
    IN  IF backup.date.month \notin 1..MonthsPerYear \/ backup.date.day \notin Days
        THEN Panic
        ELSE Ok([ys1 EXCEPT ![pos].months[backup.date.month][backup.date.day] =
                                 Some(idx)])

\* one iteration of the loop of lines 205-217
IndexStep ==
    /\ pc = "index"
    /\ i < Len(backups)
    /\ LET ys == IndexBackup(years, i, backups[i + 1]) IN
          IF ys.kind = "Panic"
          THEN pc' = "panic" /\ UNCHANGED <<years, i>>
          ELSE pc' = "index" /\ years' = ys.val /\ i' = i + 1
    /\ UNCHANGED <<read_from, dry_run, listing, cur, backups, policies,
                   days_to_remove, removals, reported, delete_calls, deleted,
                   call, ret>>

\* lines 227-233 for bucket number k, in iteration order (year, then month)
Bucket(ys, today, k) ==
    LET year == ys[((k - 1) \div MonthsPerYear) + 1]
        month_idx == (k - 1) % MonthsPerYear
        policy == policy_for(today, year.num, month_idx + 1)
    IN  [year |-> year.num, month |-> month_idx + 1, policy |-> policy,
         to_remove |-> apply_policy(policy, year.months[month_idx + 1])]

RECURSIVE Concat(_, _)
\* days_to_remove.append(&mut to_remove) over buckets 1..k
Concat(bs, k) ==
    IF k = 0 THEN <<>> ELSE Concat(bs, k - 1) \o bs[k].to_remove

\* lines 218-233: read the clock, then compute each bucket's policy and the
\* days to remove
Collect ==
    /\ pc = "index"
    /\ i = Len(backups)
    /\ LET n == MonthsPerYear * Len(years)
           bs == [k \in 1..n |-> Bucket(years, cur, k)]
       IN  /\ policies' = bs
           /\ days_to_remove' = Concat(bs, n)
    /\ pc' = "take"
    /\ UNCHANGED <<read_from, dry_run, listing, cur, backups, years, i,
                   removals, reported, delete_calls, deleted, call, ret>>

RECURSIVE TakeLoop(_, _, _, _)
\* lines 234-237: Removal(std::mem::take(&mut backups[o.idx].name)) for each
\* day; take leaves the empty string behind
TakeLoop(bs, dtr, k, acc) ==
    IF k > Len(dtr) THEN [backups |-> bs, removals |-> acc]
    ELSE TakeLoop([bs EXCEPT ![dtr[k] + 1].name = <<>>], dtr, k + 1,
                  Append(acc, bs[dtr[k] + 1].name))

TakeNames ==
    /\ pc = "take"
    /\ LET r == TakeLoop(backups, days_to_remove, 1, <<>>) IN
          /\ backups' = r.backups
          /\ removals' = r.removals
    /\ pc' = "dispatch"
    /\ UNCHANGED <<read_from, dry_run, listing, cur, years, i, policies,
                   days_to_remove, reported, delete_calls, deleted, call, ret>>

\* a flag test that never takes the dry-run branch
unwrap_or_default_never(opt) == FALSE

\* args.dry_run.unwrap_or_default()
unwrap_or_default(opt) == IF opt = None THEN FALSE ELSE opt[1]

\* lines 238-242: the dry-run branch prints every removal and returns
DryRunReport ==
    /\ pc = "dispatch"
    /\ unwrap_or_default(dry_run)
    /\ reported' = removals
    /\ pc' = "done"
    /\ UNCHANGED <<read_from, dry_run, listing, cur, backups, years, i,
                   policies, days_to_remove, removals, delete_calls, deleted,
                   call, ret>>

\* what main does after a delete call that went on although it failed
AfterDelete_ignore_error(ok, k, n) ==
    IF k = n THEN "done" ELSE "dispatch"

\* `.context("delete")?` after call number k of n: an Err leaves main
AfterDelete(ok, k, n) ==
    IF ~ok THEN "delete_error"
    ELSE IF k = n THEN "done" ELSE "dispatch"

\* DropboxDeleter::delete may fail; NoopDeleter::delete returns Ok(())
DeleteOutcomes == IF read_from = "Dropbox" THEN BOOLEAN ELSE {TRUE}

\* lines 244-246, one iteration: the next removal goes to the deleter
DeleteNext ==
    /\ pc = "dispatch"
    /\ ~unwrap_or_default(dry_run)
    /\ Len(delete_calls) < Len(removals)
    /\ LET k == Len(delete_calls) + 1 IN
       \E ok \in DeleteOutcomes :
          /\ delete_calls' = Append(delete_calls, [name |-> removals[k], ok |-> ok])
          /\ deleted' = IF ok /\ read_from = "Dropbox"
                        THEN Append(deleted, removals[k]) ELSE deleted
          /\ pc' = AfterDelete(ok, k, Len(removals))
    /\ UNCHANGED <<read_from, dry_run, listing, cur, backups, years, i,
                   policies, days_to_remove, removals, reported, call, ret>>

\* line 248 with nothing to remove
ReturnOk ==
    /\ pc = "dispatch"
    /\ ~unwrap_or_default(dry_run)
    /\ removals = <<>>
    /\ pc' = "done"
    /\ UNCHANGED <<read_from, dry_run, listing, cur, backups, years, i,
                   policies, days_to_remove, removals, reported, delete_calls,
                   deleted, call, ret>>

Next ==
    \/ Configure
    \/ Read
    \/ IndexStep
    \/ Collect
    \/ TakeNames
    \/ DryRunReport
    \/ DeleteNext
    \/ ReturnOk

Spec == Init /\ [][Next]_vars

TypeOK ==
    /\ pc \in {"start", "bail", "read", "read_error", "panic", "index", "take",
               "dispatch", "delete_error", "done"}
    /\ i \in 0..Len(backups)
    /\ Len(delete_calls) <= Len(removals)

(***************************************************************************)
(* Properties of the run                                                   *)
(***************************************************************************)
Collected == pc \in {"take", "dispatch", "done", "delete_error"}
Taken == pc \in {"dispatch", "done", "delete_error"}

NoDup(seq) == \A a, b \in 1..Len(seq) : a # b => seq[a] # seq[b]

CallNames == [k \in 1..Len(delete_calls) |-> delete_calls[k].name]

JanuaryNames(S) == {MkName(2023, 1, d, TarGz) : d \in S}

JanuaryRun == listing = JanuaryListing /\ cur = Sep15 /\ Taken

\* C3 as stated: with one backup for each day of January 2023 and today
\* 2023-09-15 the bucket's policy is BiMonthly and the removal set is every
\* day of the month except day 1 and day 15.
C3_AllButAnchorsRemoved ==
    JanuaryRun =>
        /\ policies[1].year = 2023 /\ policies[1].month = 1
        /\ policies[1].policy = "BiMonthly"
        /\ Range(removals) = JanuaryNames(Days \ {1, 15})

\* C3 amended: with one backup for each day of January 2023 and today
\* 2023-09-15 the bucket's policy is BiMonthly and the removal set is days 2
\* to 14; day 1, day 15 and days 16 to 31 are not removed.
C3_DaysBeforeLastAnchorRemoved ==
    JanuaryRun =>
        /\ policies[1].year = 2023 /\ policies[1].month = 1
        /\ policies[1].policy = "BiMonthly"
        /\ Range(removals) = JanuaryNames(2..14)

\* C3 witness: the January run ended with every removal handed to the deleter.
C3_Witness ==
    /\ JanuaryRun /\ pc = "done"
    /\ removals # <<>>
    /\ CallNames = removals

TwoYearRun == listing = TwoYearListing /\ cur = Sep15 /\ Collected

Listed(b) == b.year = 2022 \/ (b.year = 2023 /\ b.month <= 9)

PolicyOf(y, m) ==
    LET k == CHOOSE k \in DOMAIN policies :
                 policies[k].year = y /\ policies[k].month = m
    IN  policies[k].policy

HasBucket(y, m) ==
    \E k \in DOMAIN policies : policies[k].year = y /\ policies[k].month = m

\* C4 as stated: Daily for 2023-09 and 2023-08, Weekly for 2023-07 and
\* 2023-06, BiMonthly for 2023-05 .. 2023-01 and for 2022-12 and 2022-11,
\* MonthlyFirst for every older bucket.
C4_BiMonthlyThroughNovember2022 ==
    TwoYearRun =>
        \A y \in {2022, 2023}, m \in 1..MonthsPerYear :
            (y = 2022 \/ m <= 9) =>
                /\ HasBucket(y, m)
                /\ PolicyOf(y, m) =
                     IF y = 2023 /\ m >= 8 THEN "Daily"
                     ELSE IF y = 2023 /\ m >= 6 THEN "Weekly"
                     ELSE IF y = 2023 \/ m >= 11 THEN "BiMonthly"
                     ELSE "First"

\* C4 amended: Daily for 2023-09 and 2023-08, Weekly for 2023-07 and 2023-06,
\* BiMonthly for 2023-05 .. 2023-01, MonthlyFirst for 2022-12, 2022-11 and
\* every older bucket.
C4_BiMonthlyThroughJanuary2023 ==
    TwoYearRun =>
        \A y \in {2022, 2023}, m \in 1..MonthsPerYear :
            (y = 2022 \/ m <= 9) =>
                /\ HasBucket(y, m)
                /\ PolicyOf(y, m) =
                     IF y = 2023 /\ m >= 8 THEN "Daily"
                     ELSE IF y = 2023 /\ m >= 6 THEN "Weekly"
                     ELSE IF y = 2023 THEN "BiMonthly"
                     ELSE "First"

\* C4 witness: the two-year run has computed the policies of all 24 buckets
\* of 2022 and 2023, 2022-12 among them.
C4_Witness ==
    /\ TwoYearRun
    /\ Len(policies) = 2 * MonthsPerYear
    /\ HasBucket(2022, 12) /\ HasBucket(2023, 5)

\* C5: a dry run never calls the deleter and reports every computed removal;
\* no run both reports and calls the deleter.
C5_DryRunDeletesNothing ==
    /\ reported = <<>> \/ delete_calls = <<>>
    /\ dry_run = Some(TRUE) =>
          /\ delete_calls = <<>> /\ deleted = <<>>
          /\ pc # "delete_error"
          /\ pc = "done" => reported = removals

\* C5 witness: a dry run ended with a non-empty report.
C5_Witness ==
    /\ dry_run = Some(TRUE) /\ pc = "done"
    /\ removals # <<>> /\ reported # <<>>

\* C6: when delete call k fails the run aborts at once: the failed call is
\* the last call, the calls made are the first k removals in order, each
\* once, and the k-1 earlier deletions stay applied.
C6_FailedDeleteAborts ==
    /\ \A k \in 1..Len(delete_calls) :
          /\ delete_calls[k].name = removals[k]
          /\ ~delete_calls[k].ok => (k = Len(delete_calls) /\ pc = "delete_error")
    /\ pc = "delete_error" =>
          /\ ~delete_calls[Len(delete_calls)].ok
          /\ deleted = SubSeq(removals, 1, Len(delete_calls) - 1)

\* C6 witness: a delete call failed after an earlier one succeeded and with
\* removals still to go.
C6_Witness ==
    /\ pc = "delete_error"
    /\ Len(deleted) >= 1
    /\ Len(delete_calls) < Len(removals)

\* C7: no backup index comes twice in the removal list, so the deleter is
\* called at most once per backup record, never twice with one identifier,
\* and never with a name that an earlier removal left empty.
C7_NoRemovalTwice ==
    /\ NoDup(days_to_remove)
    /\ Taken => /\ NoDup(removals)
                /\ \A k \in 1..Len(removals) : removals[k] # <<>>
    /\ NoDup(CallNames)
    /\ Len(delete_calls) <= Len(backups)

\* C7 witness: two backups with one name were read, and the run ended having
\* handed that name to the deleter.
C7_Witness ==
    /\ pc = "done" /\ delete_calls # <<>>
    /\ \E a, b \in 1..Len(backups) :
          /\ a < b
          /\ backups[a].date = backups[b].date
          /\ backups[a].name \in Range(CallNames)

SameDate(a, b) == backups[a].date = backups[b].date

Slot(y, m, d) == years[y].months[m][d]

\* C9: after index construction each (year, month, day) has one slot, which
\* holds the index of the last backup of that date in list order; an earlier
\* backup of a duplicated date is never in the removal set.
C9_LastBackupOfADateWins ==
    ((pc = "index" /\ i = Len(backups)) \/ Collected) =>
        /\ \A a, b \in 1..Len(years) : a # b => years[a].num # years[b].num
        /\ \A k \in 1..Len(backups) :
              \E y \in 1..Len(years) :
                 /\ years[y].num = backups[k].date.year
                 /\ \E j \in k..Len(backups) :
                       /\ SameDate(j, k)
                       /\ \A l \in (j + 1)..Len(backups) : ~SameDate(l, k)
                       /\ Slot(y, backups[k].date.month, backups[k].date.day) = Some(j - 1)
        /\ \A y \in 1..Len(years), m \in 1..MonthsPerYear, d \in Days :
              Slot(y, m, d) # None =>
                 /\ Slot(y, m, d)[1] < Len(backups)
                 /\ backups[Slot(y, m, d)[1] + 1].date = Date(years[y].num, m, d)
        /\ \A k \in 1..Len(backups) :
              (\E j \in (k + 1)..Len(backups) : SameDate(j, k))
                 => (k - 1) \notin Range(days_to_remove)

\* C9 witness: of two backups with one date and two names, the later one was
\* removed and the earlier one kept its name.
C9_Witness ==
    /\ pc = "done"
    /\ \E a, b \in 1..Len(backups) :
          /\ a < b /\ SameDate(a, b)
          /\ (b - 1) \in Range(days_to_remove)
          /\ backups[a].name # <<>>
          /\ backups[a].name \notin Range(removals)

BackupAge(idx) == Age(cur, backups[idx + 1].date.year, backups[idx + 1].date.month)

\* C10: the First policy yields an empty removal list for every month bucket,
\* as Daily does, so no backup of a bucket aged 9 months or more is removed
\* or handed to the deleter.
C10_FirstRemovesNothing ==
    /\ \A k \in DOMAIN policies :
          policies[k].policy = "First" => policies[k].to_remove = <<>>
    /\ \A y \in 1..Len(years), m \in 1..MonthsPerYear :
          apply_policy("First", years[y].months[m]) = <<>>
    /\ \A k \in 1..Len(days_to_remove) : BackupAge(days_to_remove[k]) < 9
    /\ \A k \in 1..Len(delete_calls) :
          /\ k <= Len(days_to_remove)
          /\ BackupAge(days_to_remove[k]) < 9

\* C10 witness: a run that deleted something ended with a bucket under the
\* First policy that holds a backup on a day other than day 1.
C10_Witness ==
    /\ pc = "done" /\ delete_calls # <<>>
    /\ \E k \in DOMAIN policies :
          /\ policies[k].policy = "First"
          /\ \E y \in 1..Len(years) :
                /\ years[y].num = policies[k].year
                /\ Populated(years[y].months[policies[k].month]) \ {1} # {}

====
